---- MODULE Spec2Model ----
(***************************************************************************)
(* A model of the fetch engine of async-fetcher (src/src/lib.rs): one      *)
(* source driven through requests_stream -> request -> inner_request ->    *)
(* get / get_many, against a server that holds one file of Length bytes.   *)
(*                                                                         *)
(* Bytes are natural numbers: the server's byte at (0-based) position p is *)
(* p + 1, and 0 is a byte that set_len filled in.  Times are "lm" (the     *)
(* server's Last-Modified, in whole seconds), "old" (some other time the   *)
(* file had before the fetch) and "now" (the time of a write by the        *)
(* fetch).  An Option is a sequence: <<>> is None, <<v>> is Some(v).       *)
(*                                                                         *)
(* Spec is the fetch of a source without a staging path from a server      *)
(* whose answers to HEAD carry Last-Modified; SpecStaged is the fetch of a *)
(* source with a staging path, SpecNoLm the fetch from a server whose      *)
(* answers to HEAD carry none, SpecTimed the fetch by a fetcher with a     *)
(* timeout, every step of which is eventually taken.                       *)
(***************************************************************************)
EXTENDS Integers, Sequences, FiniteSets, TLC

\* ------------------------------------------------------------- bounds
\* The length of the file the server holds.
Length == 2
\* The largest `retries` a fetcher is configured with.
MaxRetries == 2
\* The number of abnormal answers and failed reads of one run.
MaxFaults == 1

\* max_part_size as configured here: a file of Length bytes has two parts.
MaxPartSize == Length - 1

\* ------------------------------------------------------------ helpers
None == <<>>
Some(v) == <<v>>
IsSome(o) == o # <<>>
UnwrapOr(o, d) == IF o = <<>> THEN d ELSE o[1]

Min(a, b) == IF a < b THEN a ELSE b
Max(a, b) == IF a > b THEN a ELSE b

\* The bytes the server holds at the half-open range [a, b).
Body(a, b) == [i \in 1..(b - a) |-> a + i]

Zeros(n) == [i \in 1..n |-> 0]

\* File::set_len: truncate, or extend with zero bytes.
SetLen(bytes, n) ==
    IF n <= Len(bytes) THEN SubSeq(bytes, 1, n) ELSE bytes \o Zeros(n - Len(bytes))

\* write_all through a handle that was not opened for append: the bytes go
\* to the handle's cursor.
WriteAt(bytes, cursor, data) ==
    [i \in 1..Max(Len(bytes), cursor + Len(data)) |->
        IF i > cursor /\ i <= cursor + Len(data) THEN data[i - cursor] ELSE bytes[i]]

\* write_all: a handle opened with append(true) writes at the end of the
\* file, whatever its length is at that time.
FileWrite(bytes, append, cursor, data) ==
    IF append THEN bytes \o data ELSE WriteAt(bytes, cursor, data)

\* OpenOptions::new().create(true).write(true).append(offset != 0)
\* .truncate(offset == 0).open(..): the file's bytes after the open.
OpenBytes(file, offset) ==
    IF file.exists /\ offset # 0 THEN file.bytes ELSE <<>>

NoFile == [exists |-> FALSE, bytes |-> <<>>, mtime |-> "old"]
MkFile(bytes, mtime) == [exists |-> TRUE, bytes |-> bytes, mtime |-> mtime]

\* range::generate: the half-open ranges of at most maxPart bytes that
\* cover [offset, length), in ascending order; none when length <= offset.
RECURSIVE Generate(_, _, _)
Generate(length, maxPart, offset) ==
    IF offset >= length THEN <<>>
    ELSE <<(<<offset, Min(offset + maxPart, length)>>)>>
             \o Generate(length, maxPart, Min(offset + maxPart, length))

\* range::to_string: "bytes=<from>-<to - 1>", or "bytes=<from>-" when the
\* end is absent.  The header is the sequence of the numbers it carries.
RangeToString(from, to) ==
    IF IsSome(to) THEN <<from, to[1] - 1>> ELSE <<from>>

Ev(k, n) == [k |-> k, n |-> n]

PartIdx == 0..(Length - 1)

\* ---------------------------------------------------------- variables
VARIABLES
    conf,      \* the fetcher's configuration, the source and the server's behaviour
    cancel,    \* the shared cancel flag
    faults,    \* abnormal answers and I/O failures injected so far
    dest,      \* the file at the path given to request
    final,     \* the file at Source::dest when the source has a staging path
    partFiles, \* the siblings <filename>.part<i>: None, or Some(bytes)
    events,    \* what was sent to the event sink, in order
    pc,        \* where the fetch future of the source is
    req,       \* request: attempts started, their outcomes, the result
    att,       \* inner_request: the locals of the current attempt
    sget,      \* get on the destination: the state of its stream
    many,      \* get_many: the pipeline of part fetches
    written    \* bytes written to the destination by write_all / the concatenator

vars == <<conf, cancel, faults, dest, final, partFiles, events, pc, req, att, sget, many, written>>

\* ------------------------------------------------------------- results
Ok == [err |-> "Ok", code |-> 0]
Err(e) == [err |-> e, code |-> 0]
Status(c) == [err |-> "Status", code |-> c]
Pending == [err |-> "none", code |-> 0]
\* A result that is no error and not the end: the name of what comes next.
Val(v) == [err |-> v, code |-> 0]

\* validate: informational and success statuses pass.
Validate(status) == status \in 100..299

\* -------------------------------------------------------------- server
\* Status 0 stands for a request that got no answer (an isahc::Error).
CanFault == faults < MaxFaults

\* The answers to a plain HEAD: 200 with Content-Length and Last-Modified,
\* or, as a fault, 304 or 500.
HeadAnswers == {200} \cup (IF CanFault THEN {304, 500} ELSE {})

\* The answers to a HEAD with a Range header (the sequence RangeToString
\* made): [status, crange], crange the start named by Content-Range.
RangeAnswers(header) ==
    (CASE conf.rangeMode = "ok" ->
            IF header[1] < Length
            THEN {[status |-> 206, crange |-> Some(header[1])]}
            ELSE {[status |-> 416, crange |-> None]}
       [] OTHER -> {[status |-> 206, crange |-> Some(header[1] + 1)],
                    [status |-> 206, crange |-> None],
                    [status |-> 200, crange |-> None]})
    \cup (IF CanFault THEN {[status |-> 0, crange |-> None]} ELSE {})

\* The status that stands for a send that stalls, and the count that stands
\* for a read that stalls.  A fetcher with no timeout would wait for ever:
\* only a fetcher with a timeout is given them.
StalledSend == -1
StalledRead == -2

\* The answers to a GET: [status, from, to], the body being the server's
\* bytes [from, to).  A server that does not serve ranges ignores the header.
GetAnswers(header) ==
    (IF header = <<>> \/ conf.rangeMode # "ok"
     THEN {[status |-> 200, from |-> 0, to |-> Length]}
     ELSE IF header[1] >= Length
     THEN {[status |-> 416, from |-> 0, to |-> 0]}
     ELSE {[status |-> 206, from |-> header[1],
            to |-> IF Len(header) = 1 THEN Length ELSE Min(header[2] + 1, Length)]})
    \cup (IF CanFault
          THEN {[status |-> s, from |-> 0, to |-> 0] :
                    s \in {0, 304, 501} \cup (IF conf.timeout THEN {StalledSend} ELSE {})}
          ELSE {})

\* What one read of the body gives: the number of bytes read, any part of
\* what remains (the buffer is larger than the file) and 0 at the end of the
\* body, or, as a fault, -1 for a read error.
ReadResults(remaining) ==
    (IF remaining = 0 THEN {0} ELSE 1..remaining)
    \cup (IF CanFault THEN {-1} \cup (IF conf.timeout THEN {StalledRead} ELSE {}) ELSE {})

Faulty(status) == status \in {StalledSend, 0, 304, 500, 501}

\* Whether an open of a file for writing succeeds: it does, or, as a fault,
\* it fails (the error get maps to FileCreate).
OpenResults == {TRUE} \cup (IF CanFault THEN {FALSE} ELSE {})

\* ---------------------------------------------------------------- probes
\* ResponseExt::last_modified of the answer to a HEAD.
LastModified == IF conf.headLm THEN "lm" ELSE "none"

\* head: "info" is Ok(Some(response)), "none" is Ok(None).
HeadResult(status) ==
    IF status = 0 THEN Err("Client")
    ELSE IF Validate(status) THEN Val("info")
    ELSE IF status \in {304, 501} THEN Val("noinfo")
    ELSE Status(status)

\* SupportsRange with every 206 taken for support, whatever its
\* Content-Range.
SupportsRangeAnyPartial(answer, resume) ==
    IF answer.status = 0 THEN Err("Client")
    ELSE IF answer.status = 206 THEN Val("true")
    ELSE IF Validate(answer.status) THEN Val("false")
    ELSE Status(answer.status)

\* supports_range: "true" and "false" are Ok(true) and Ok(false).
SupportsRange(answer, resume) ==
    IF answer.status = 0 THEN Err("Client")
    ELSE IF answer.status = 206
    THEN (IF answer.crange = Some(resume) THEN Val("true") ELSE Val("false"))
    ELSE IF Validate(answer.status) THEN Val("false")
    ELSE Status(answer.status)

\* A call of supports_range: the offset asked for, the answer, the result.
RangeProbe(resume, answer, result) ==
    [resume |-> resume, status |-> answer.status, crange |-> answer.crange,
     result |-> result.err]

\* ------------------------------------------------------------------ Init
InitialDest ==
    {NoFile}
      \cup {MkFile(Body(0, r), "old") : r \in 0..(Length + 1)}
      \cup {MkFile(Body(0, Length), "lm")}

NoParts == [i \in PartIdx |-> None]

NewAttempt ==
    [length |-> None, modified |-> "none", resume |-> None, mode |-> "none",
     probe |-> "none", gets |-> 0, evStart |-> Len(events), destStart |-> dest,
     range |-> <<>>, offset |-> 0, getTry |-> 0, notModified |-> FALSE,
     lmSeen |-> FALSE, probes |-> <<>>, res |-> Pending]

IdleGet == [append |-> FALSE, cursor |-> 0, next |-> 0, end |-> 0, firstWrite |-> None]

IdlePart == [st |-> "idle", cursor |-> 0, next |-> 0, end |-> 0, res |-> Pending]

IdleMany == [ranges |-> <<>>, nextPart |-> 0, part |-> [i \in PartIdx |-> IdlePart]]

\* The fetchers, sources and servers of a run.  connections 0 is
\* connections_per_file unset; a file has two parts, so two connections is
\* every part in flight at once.  staging: the source has a staging path
\* (Source::part).  headLm: the server's answer to a HEAD carries
\* Last-Modified (its answers to a GET always do).
Config(stagings, headLms) ==
    [connections : 0..2, retries : 1..MaxRetries, rangeMode : {"ok", "no"},
     staging : stagings, headLm : headLms, timeout : {FALSE}]

\* The same fetchers built with `.timeout(duration)`.
ConfigTimed == {[c EXCEPT !.timeout = TRUE] : c \in Config({FALSE}, {TRUE})}

\* What Source::dest holds before the fetch of a source with a staging path.
InitialFinal == {NoFile, MkFile(<<0>>, "old")}

InitWith(confs, finals) ==
    /\ conf \in confs
    /\ cancel = FALSE
    /\ faults = 0
    /\ dest \in InitialDest
    /\ final \in finals
    /\ partFiles \in {NoParts, [NoParts EXCEPT ![Length - 1] = Some(<<0>>)]}
    /\ events = <<>>
    /\ pc = "init"
    /\ req = [attempts |-> 0, results |-> <<>>, result |-> Pending, outcome |-> Pending]
    /\ att = [length |-> None, modified |-> "none", resume |-> None, mode |-> "none",
              probe |-> "none", gets |-> 0, evStart |-> 0, destStart |-> NoFile,
              range |-> <<>>, offset |-> 0, getTry |-> 0, notModified |-> FALSE,
              lmSeen |-> FALSE, probes |-> <<>>, res |-> Pending]
    /\ sget = IdleGet
    /\ many = IdleMany
    /\ written = 0

\* A source without a staging path, a server whose HEAD carries Last-Modified.
Init == InitWith(Config({FALSE}, {TRUE}), {NoFile})

\* A source with a staging path.
InitStaged == InitWith(Config({TRUE}, {TRUE}), InitialFinal)

\* A server whose answer to a HEAD carries no Last-Modified.
InitNoLm == InitWith(Config({FALSE}, {FALSE}), {NoFile})

\* A fetcher with a timeout, the destination missing, one byte long or the
\* server's file, no part file left by an earlier run; the fetchers with
\* two connections are those with `retries` 1.
InitTimed ==
    /\ InitWith({c \in ConfigTimed : c.connections = 2 => c.retries = 1}, {NoFile})
    /\ dest \in {NoFile, MkFile(Body(0, 1), "old"), MkFile(Body(0, Length), "lm")}
    /\ partFiles = NoParts

\* ------------------------------------------------------ requests_stream
\* requests_stream, before request: Fetching is sent.
Fetching ==
    /\ pc = "init"
    /\ events' = Append(events, Ev("Fetching", 0))
    /\ pc' = "request"
    /\ UNCHANGED <<conf, final, cancel, faults, dest, partFiles, req, att, sget, many, written>>

\* remove_parts: every sibling <filename>.part* is deleted.
RemoveParts(files) == [i \in DOMAIN files |-> None]

\* request, up to its first attempt.
RequestStart ==
    /\ pc = "request"
    /\ partFiles' = RemoveParts(partFiles)
    /\ pc' = "attempt"
    /\ UNCHANGED <<conf, final, cancel, faults, dest, events, req, att, sget, many, written>>

\* The attempt ends with result r.
EndAttempt(a, r) == [a EXCEPT !.res = r]

\* IsCacheHit with the test of the times inverted.
IsCacheHitFlipped(len, mtime, length, modified) == len = length /\ mtime # modified

\* ProbeResume with the local length as the offset whatever the lengths.
ProbeResumeLocalLength(len, length) == Some(len)

\* inner_request: the resume offset for a local file that is no cache hit,
\* none when the lengths are equal and the local length otherwise.
ProbeResume(len, length) == IF len = length THEN None ELSE Some(len)

\* inner_request: is the local file the one the server has?
IsCacheHit(len, mtime, length, modified) == len = length /\ mtime = modified

\* inner_request, the validation of an existing file: one HEAD, then the
\* local length and mtime against its Content-Length and Last-Modified.
Probe ==
    /\ pc = "attempt"
    /\ req' = [req EXCEPT !.attempts = @ + 1]
    /\ IF ~dest.exists
       THEN /\ att' = [NewAttempt EXCEPT !.probe = "nofile"]
            /\ pc' = "plan"
            /\ UNCHANGED <<faults, dest, events>>
       ELSE \E status \in HeadAnswers :
              /\ faults' = IF Faulty(status) THEN faults + 1 ELSE faults
              /\ LET h == HeadResult(status) IN
                 IF h.err = "noinfo"
                 THEN /\ att' = [NewAttempt EXCEPT !.probe = "noinfo"]
                      /\ pc' = "plan"
                      /\ UNCHANGED <<dest, events>>
                 ELSE IF h.err # "info"
                 THEN /\ att' = EndAttempt(NewAttempt, h)
                      /\ pc' = "attempt_end"
                      /\ UNCHANGED <<dest, events>>
                 ELSE LET a == [NewAttempt EXCEPT !.probe = "info",
                                                   !.length = Some(Length),
                                                   !.modified = LastModified,
                                                   !.lmSeen = conf.headLm]
                      IN
                      IF ~conf.headLm
                      THEN /\ att' = a
                           /\ pc' = "plan"
                           /\ UNCHANGED <<dest, events>>
                      ELSE
                      IF IsCacheHit(Len(dest.bytes), dest.mtime, Length, "lm")
                      THEN /\ events' = Append(events, Ev("AlreadyFetched", 0))
                           /\ att' = EndAttempt([a EXCEPT !.mode = "hit"], Ok)
                           /\ pc' = "attempt_end"
                           /\ UNCHANGED dest
                      ELSE /\ dest' = IF Len(dest.bytes) = Length THEN NoFile ELSE dest
                           /\ att' = [a EXCEPT !.resume = ProbeResume(Len(dest.bytes), Length)]
                           /\ pc' = "plan"
                           /\ UNCHANGED events
    /\ UNCHANGED <<conf, final, cancel, partFiles, sget, many, written>>

\* inner_request, the HEAD of the multi-part path (connections_per_file set).
Plan ==
    /\ pc = "plan"
    /\ IF conf.connections = 0
       THEN /\ pc' = "single"
            /\ UNCHANGED <<faults, att>>
       ELSE \E status \in HeadAnswers :
              /\ faults' = IF Faulty(status) THEN faults + 1 ELSE faults
              /\ LET h == HeadResult(status) IN
                 IF h.err = "noinfo"
                 THEN pc' = "single" /\ UNCHANGED att
                 ELSE IF h.err # "info"
                 THEN pc' = "attempt_end" /\ att' = EndAttempt(att, h)
                 ELSE /\ pc' = "plan_range"
                      /\ att' = [att EXCEPT !.modified = LastModified,
                                            !.lmSeen = @ \/ conf.headLm,
                                            !.length = IF IsSome(@) THEN @ ELSE Some(Length)]
    /\ UNCHANGED <<conf, final, cancel, dest, partFiles, events, req, sget, many, written>>

\* inner_request, the multi-part path: the range probe at the resume
\* offset, then ContentLength and, when resuming, Progress(resume).
PlanRange ==
    /\ pc = "plan_range"
    /\ LET resume == UnwrapOr(att.resume, 0)
           length == att.length[1]
       IN
       \E answer \in RangeAnswers(RangeToString(resume, Some(length))) :
         /\ faults' = IF Faulty(answer.status) THEN faults + 1 ELSE faults
         /\ LET s == SupportsRange(answer, resume)
                a == [att EXCEPT !.probes = Append(@, RangeProbe(resume, answer, s))]
            IN
            IF s.err = "true"
            THEN /\ events' = Append(events, Ev("ContentLength", length))
                                \o (IF resume # 0 THEN <<Ev("Progress", resume)>> ELSE <<>>)
                 /\ att' = [a EXCEPT !.mode = "multi", !.offset = resume]
                 /\ pc' = "many_open"
            ELSE IF s.err = "false"
            THEN pc' = "single" /\ att' = a /\ UNCHANGED events
            ELSE pc' = "attempt_end" /\ att' = EndAttempt(a, s) /\ UNCHANGED events
    /\ UNCHANGED <<conf, final, cancel, dest, partFiles, req, sget, many, written>>

\* inner_request, the single-stream path up to the GET: ContentLength, the
\* resume offset that is kept, and the Range header of the request.
Single ==
    /\ pc = "single"
    /\ events' = IF IsSome(att.length)
                 THEN Append(events, Ev("ContentLength", att.length[1]))
                 ELSE events
    /\ LET r == IF IsSome(att.resume) /\ IsSome(att.length) /\ att.resume[1] > att.length[1]
                THEN None
                ELSE att.resume
           whole == [att EXCEPT !.mode = "single", !.getTry = 1, !.resume = None,
                                !.range = <<>>, !.offset = 0]
       IN
       IF IsSome(r)
       THEN \E answer \in RangeAnswers(RangeToString(r[1], att.length)) :
              /\ faults' = IF Faulty(answer.status) THEN faults + 1 ELSE faults
              /\ LET s == SupportsRange(answer, r[1])
                     probes == Append(att.probes, RangeProbe(r[1], answer, s))
                 IN
                 att' = IF s.err = "true"
                        THEN [att EXCEPT !.mode = "single", !.getTry = 1,
                                         !.range = RangeToString(r[1], att.length),
                                         !.offset = r[1], !.probes = probes]
                        ELSE [whole EXCEPT !.probes = probes]
       ELSE att' = whole /\ UNCHANGED faults
    /\ pc' = "get"
    /\ UNCHANGED <<conf, final, cancel, dest, partFiles, req, sget, many, written>>

\* ------------------------------------------------------------------- get
\* get, the open: create, truncate when offset is 0 and append otherwise,
\* then set_len(length) when the length is known.
GetOpenFile(file, length, offset) ==
    LET opened == OpenBytes(file, offset) IN
    MkFile(IF IsSome(length) THEN SetLen(opened, length[1]) ELSE opened,
           IF file.exists /\ offset # 0 /\ ~IsSome(length) THEN file.mtime ELSE "now")

\* timed: the sleep wins the select over a future that stalls, or else the
\* future's output is the result.
Timed(stalled, result) == IF stalled THEN Err("TimedOut") ELSE result

\* get, after send_async: 304 returns Ok(to) at once, a status validate
\* refuses is an error, anything else is streamed.
GetSendResult(status) ==
    Timed(status = StalledSend,
          IF status = 0 THEN Err("Client")
          ELSE IF status = 304 THEN Ok
          ELSE IF ~Validate(status) THEN Status(status)
          ELSE Val("stream"))

\* get, one turn of the loop: the cancel flag, then one read.
GetChunkResult(cancelled, n) ==
    IF cancelled THEN Err("Cancelled")
    ELSE Timed(n = StalledRead,
               IF n = -1 THEN Err("Write")
               ELSE IF n = 0 THEN Ok
               ELSE Val("more"))

\* get: the stream of a response with body [from, to).
OpenStream(offset, from, to) ==
    [append |-> offset # 0, cursor |-> 0, next |-> from, end |-> to, firstWrite |-> None]

\* filetime::set_file_times, when a Last-Modified is known.
ApplyModified(file, modified) ==
    IF modified # "none" THEN [file EXCEPT !.mtime = modified] ELSE file

\* inner_request calls get on the destination: open, set_len, send.  The
\* first get answered 501 is followed by one get with no Range header.
SingleOpen ==
    /\ pc = "get"
    /\ \E canOpen \in OpenResults :
       IF ~canOpen
       THEN /\ faults' = faults + 1
            /\ att' = EndAttempt(att, Err("FileCreate"))
            /\ pc' = "attempt_end"
            /\ UNCHANGED <<dest, sget>>
       ELSE
       \E answer \in GetAnswers(att.range) :
         LET r == GetSendResult(answer.status)
             opened == GetOpenFile(dest, att.length, att.offset)
             a == [att EXCEPT !.gets = @ + 1, !.notModified = @ \/ answer.status = 304]
         IN
         /\ faults' = IF Faulty(answer.status) THEN faults + 1 ELSE faults
         /\ IF r.err = "stream"
            THEN /\ dest' = opened
                 /\ sget' = OpenStream(att.offset, answer.from, answer.to)
                 /\ att' = [a EXCEPT !.modified = IF @ = "none" THEN "lm" ELSE @,
                                      !.lmSeen = TRUE]
                 /\ pc' = "body"
            ELSE IF r = Ok
            THEN /\ dest' = ApplyModified(opened, att.modified)
                 /\ att' = EndAttempt(a, Ok)
                 /\ pc' = "attempt_end"
                 /\ UNCHANGED sget
            ELSE IF r = Status(501) /\ att.getTry = 1
            THEN /\ dest' = opened
                 /\ att' = [a EXCEPT !.getTry = 2, !.range = <<>>]
                 /\ pc' = "get"
                 /\ UNCHANGED sget
            ELSE /\ dest' = opened
                 /\ att' = EndAttempt(a, r)
                 /\ pc' = "attempt_end"
                 /\ UNCHANGED sget
    /\ UNCHANGED <<conf, final, cancel, partFiles, events, req, many, written>>

\* get on the destination, one turn of the loop; at the end of the body
\* inner_request sets the file times and returns Ok.
SingleChunk ==
    /\ pc = "body"
    /\ \E n \in (IF cancel THEN {0} ELSE ReadResults(sget.end - sget.next)) :
         LET r == GetChunkResult(cancel, n) IN
         /\ faults' = IF ~cancel /\ n < 0 THEN faults + 1 ELSE faults
         /\ IF r.err = "more"
            THEN /\ events' = Append(events, Ev("Progress", n))
                 /\ dest' = [dest EXCEPT
                       !.bytes = FileWrite(@, sget.append, sget.cursor,
                                           Body(sget.next, sget.next + n)),
                       !.mtime = "now"]
                 /\ sget' = [sget EXCEPT
                       !.cursor = @ + n, !.next = @ + n,
                       !.firstWrite = IF IsSome(@) THEN @
                                      ELSE Some(IF sget.append THEN Len(dest.bytes)
                                                ELSE sget.cursor)]
                 /\ written' = written + n
                 /\ UNCHANGED <<pc, att>>
            ELSE /\ dest' = IF r = Ok THEN ApplyModified(dest, att.modified) ELSE dest
                 /\ att' = EndAttempt(att, r)
                 /\ pc' = "attempt_end"
                 /\ sget' = IdleGet
                 /\ UNCHANGED <<events, written>>
    /\ UNCHANGED <<conf, final, cancel, partFiles, req, many>>

\* -------------------------------------------------------------- get_many
\* get_many, up to the stream of parts: the destination is opened (truncated
\* when offset is 0, for append otherwise) and the ranges are planned.
GetManyOpen ==
    /\ pc = "many_open"
    /\ dest' = MkFile(OpenBytes(dest, att.offset),
                      IF dest.exists /\ att.offset # 0 THEN dest.mtime ELSE "now")
    /\ many' = [IdleMany EXCEPT !.ranges = Generate(att.length[1], MaxPartSize, att.offset)]
    /\ pc' = "many"
    /\ UNCHANGED <<conf, final, cancel, faults, partFiles, events, req, att, sget, written>>

\* Buffered with no room at all: `.buffered(0)`.
BufferedNone(held, concurrent) == FALSE

\* Buffered with room for one future more.
BufferedOneMore(held, concurrent) == held <= concurrent

\* .buffered(concurrent): a further part future is taken from the stream
\* while fewer than `concurrent` are held (running, or finished and not yet
\* yielded).
Buffered(held, concurrent) == held < concurrent

\* The part futures the pipeline holds.
Held(m) == {i \in PartIdx : m.part[i].st \in {"begun", "body", "done"}}

\* Yieldable as buffer_unordered would have it: in the order of completion.
YieldableAnyOrder(m, i) == m.part[i].st = "done"

\* Yieldable with a failed part yielded as soon as it has failed.
YieldableFailureFirst(m, i) ==
    /\ m.part[i].st = "done"
    /\ \/ m.part[i].res # Ok
       \/ \A j \in PartIdx : j < i => m.part[j].st = "taken"

\* .buffered yields the results in the order of the stream: part i when it
\* has finished and every part before it was yielded.
Yieldable(m, i) ==
    /\ m.part[i].st = "done"
    /\ \A j \in PartIdx : j < i => m.part[j].st = "taken"

PartFile(i) == IF IsSome(partFiles[i]) THEN MkFile(partFiles[i][1], "now") ELSE NoFile

\* AfterGet as `get(..).await?` would have it: an error of the open of the
\* part file leaves the part future before PartFetched is sent.
AfterGetUnlessCreateFailed(evs, i, r) ==
    IF r = Err("FileCreate") THEN evs ELSE Append(evs, Ev("PartFetched", i))

\* The future of part i, after its get returned r: PartFetched(i) is sent,
\* whatever r is.
AfterGet(evs, i, r) == Append(evs, Ev("PartFetched", i))

\* Whether the pipeline takes a further part future from the stream of
\* parts when it is polled.
CanBegin ==
    /\ pc = "many"
    /\ many.nextPart < Len(many.ranges)
    /\ Buffered(Cardinality(Held(many)), conf.connections)

\* .buffered, polled: before it polls the futures it holds it takes part
\* futures from the stream while it has room, and each one taken runs up to
\* its first await: PartFetching(i) is sent.
PartBegin ==
    /\ CanBegin
    /\ LET i == many.nextPart IN
       /\ many' = [many EXCEPT !.nextPart = i + 1, !.part[i].st = "begun"]
       /\ events' = Append(events, Ev("PartFetching", i))
    /\ UNCHANGED <<conf, final, cancel, faults, dest, partFiles, pc, req, att, sget, written>>

\* The future of part i, from its get on <filename>.part<i> (offset 0, the
\* length of the range) up to the answer to its GET; PartFetched(i) when
\* the get returns at once.
PartStart(i) ==
    /\ many.part[i].st = "begun"
    /\ ~CanBegin
    /\ LET range == many.ranges[i + 1]
           header == RangeToString(range[1], Some(range[2]))
           opened == GetOpenFile(PartFile(i), Some(range[2] - range[1]), 0)
       IN
       \E canOpen \in OpenResults :
       IF ~canOpen
       THEN /\ faults' = faults + 1
            /\ many' = [many EXCEPT
                  !.part[i] = [IdlePart EXCEPT !.st = "done", !.res = Err("FileCreate")]]
            /\ events' = AfterGet(events, i, Err("FileCreate"))
            /\ UNCHANGED <<partFiles, att>>
       ELSE
       \E answer \in GetAnswers(header) :
         LET r == GetSendResult(answer.status) IN
         /\ faults' = IF Faulty(answer.status) THEN faults + 1 ELSE faults
         /\ partFiles' = [partFiles EXCEPT ![i] = Some(opened.bytes)]
         /\ att' = [att EXCEPT !.gets = @ + 1, !.notModified = @ \/ answer.status = 304,
                               !.lmSeen = @ \/ r.err = "stream"]
         /\ IF r.err = "stream"
            THEN /\ many' = [many EXCEPT
                       !.part[i] = [st |-> "body", cursor |-> 0, next |-> answer.from,
                                    end |-> answer.to, res |-> Pending]]
                 /\ UNCHANGED events
            ELSE /\ many' = [many EXCEPT
                       !.part[i] = [IdlePart EXCEPT !.st = "done", !.res = r]]
                 /\ events' = AfterGet(events, i, r)
    /\ UNCHANGED <<conf, final, cancel, dest, pc, req, sget, written>>

\* The future of part i, one turn of the loop of its get; PartFetched(i)
\* when the get returns.
PartChunk(i) ==
    /\ many.part[i].st = "body"
    /\ ~CanBegin
    /\ LET p == many.part[i] IN
       \E n \in (IF cancel THEN {0} ELSE ReadResults(p.end - p.next)) :
         LET r == GetChunkResult(cancel, n) IN
         /\ faults' = IF ~cancel /\ n < 0 THEN faults + 1 ELSE faults
         /\ IF r.err = "more"
            THEN /\ events' = Append(events, Ev("Progress", n))
                 /\ partFiles' =
                       IF IsSome(partFiles[i])
                       THEN [partFiles EXCEPT
                               ![i] = Some(FileWrite(@[1], FALSE, p.cursor,
                                                     Body(p.next, p.next + n)))]
                       ELSE partFiles   \* the file was unlinked: the handle writes unseen
                 /\ many' = [many EXCEPT !.part[i].cursor = @ + n, !.part[i].next = @ + n]
            ELSE /\ events' = AfterGet(events, i, r)
                 /\ many' = [many EXCEPT !.part[i].st = "done", !.part[i].res = r]
                 /\ UNCHANGED partFiles
    /\ UNCHANGED <<conf, final, cancel, dest, pc, req, att, sget, written>>

\* DropParts had the part futures been spawned: they outlive get_many.
KeepParts(m) == m

\* What is left of the pipeline when get_many returns: the stream of parts
\* is dropped, and with it every part future it holds.
DropParts(m) == IdleMany

\* concatenator, one part: the stream yields the parts in index order; the
\* part file is copied to the end of the destination and deleted.
ConcatPart ==
    /\ pc = "many"
    /\ ~CanBegin
    /\ \E i \in PartIdx :
         /\ Yieldable(many, i)
         /\ many.part[i].res = Ok
         /\ dest' = [dest EXCEPT !.bytes = @ \o partFiles[i][1], !.mtime = "now"]
         /\ written' = written + Len(partFiles[i][1])
         /\ partFiles' = [partFiles EXCEPT ![i] = None]
         /\ many' = [many EXCEPT !.part[i].st = "taken"]
    /\ UNCHANGED <<conf, final, cancel, faults, events, pc, req, att, sget>>

\* concatenator, a part that failed: its error ends get_many and the attempt.
ManyFail ==
    /\ pc = "many"
    /\ ~CanBegin
    /\ \E i \in PartIdx :
         /\ Yieldable(many, i)
         /\ many.part[i].res # Ok
         /\ att' = EndAttempt(att, many.part[i].res)
    /\ many' = DropParts(many)
    /\ pc' = "attempt_end"
    /\ UNCHANGED <<conf, final, cancel, faults, dest, partFiles, events, req, sget, written>>

\* get_many after the last part, and inner_request after get_many: the file
\* times are set when Last-Modified is known.
ManyDone ==
    /\ pc = "many"
    /\ \A i \in PartIdx : i < Len(many.ranges) => many.part[i].st = "taken"
    /\ dest' = ApplyModified(dest, att.modified)
    /\ att' = EndAttempt(att, Ok)
    /\ many' = DropParts(many)
    /\ pc' = "attempt_end"
    /\ UNCHANGED <<conf, final, cancel, faults, partFiles, events, req, sget, written>>

\* --------------------------------------------------------------- request
\* MoreAttempts for the inclusive range `1..=retries`.
MoreAttemptsInclusive(made, retries) == made <= retries

\* request: `for _ in 1..retries` runs another attempt after a failed one
\* while fewer than `retries` attempts were made.
MoreAttempts(made, retries) == made < retries

\* request: is remove_parts run after an attempt that returned Ok?  Ok of
\* the first attempt falls through to it; Ok of a retry is `return Ok(())`.
CleansAfterOk(made) == made = 1

\* request, after an attempt: return, or run the next attempt.
RequestLoop ==
    /\ pc = "attempt_end"
    /\ LET r == att.res
           done == [req EXCEPT !.results = Append(@, r), !.result = r]
       IN
       IF r = Ok
       THEN /\ req' = done
            /\ partFiles' = IF CleansAfterOk(req.attempts) THEN RemoveParts(partFiles)
                            ELSE partFiles
            /\ pc' = "request_end"
       ELSE IF MoreAttempts(req.attempts, conf.retries)
       THEN /\ req' = [req EXCEPT !.results = Append(@, r)]
            /\ pc' = "attempt"
            /\ UNCHANGED partFiles
       ELSE /\ req' = done
            /\ partFiles' = RemoveParts(partFiles)
            /\ pc' = "request_end"
    /\ UNCHANGED <<conf, final, cancel, faults, dest, events, att, sget, many, written>>

\* Whether fs::rename succeeds: it does, or, as a fault, it fails.
RenameResults == {TRUE} \cup (IF CanFault THEN {FALSE} ELSE {})

\* Renames with the rename done whatever request returned.
RenamesWhatever(staging, result) == staging

\* requests_stream: is the staging path renamed to Source::dest?  For a
\* source that has one, when request returned Ok.
Renames(staging, result) == staging /\ result = Ok

\* requests_stream, the result of the fetch: that of request, and for a
\* source with a staging path that request fetched, that of the rename of
\* the staging path to Source::dest.
Outcome ==
    /\ pc = "request_end"
    /\ IF Renames(conf.staging, req.result)
       THEN \E renamed \in RenameResults :
              IF renamed
              THEN /\ final' = dest
                   /\ dest' = NoFile
                   /\ req' = [req EXCEPT !.outcome = Ok]
                   /\ UNCHANGED faults
              ELSE /\ req' = [req EXCEPT !.outcome = Err("Rename")]
                   /\ faults' = faults + 1
                   /\ UNCHANGED <<dest, final>>
       ELSE /\ req' = [req EXCEPT !.outcome = req.result]
            /\ UNCHANGED <<dest, final, faults>>
    /\ pc' = "outcome"
    /\ UNCHANGED <<conf, cancel, partFiles, events, att, sget, many, written>>

\* requests_stream, after request: Fetched is sent, whatever the result.
Fetched ==
    /\ pc = "outcome"
    /\ events' = Append(events, Ev("Fetched", 0))
    /\ pc' = "done"
    /\ UNCHANGED <<conf, final, cancel, faults, dest, partFiles, req, att, sget, many, written>>

\* The owner of the cancel flag stores true.
SetCancel ==
    /\ ~cancel
    /\ pc # "done"
    /\ cancel' = TRUE
    /\ UNCHANGED <<conf, final, faults, dest, partFiles, events, pc, req, att, sget, many, written>>

Next ==
    \/ Fetching
    \/ RequestStart
    \/ Probe
    \/ Plan
    \/ PlanRange
    \/ Single
    \/ SingleOpen
    \/ SingleChunk
    \/ GetManyOpen
    \/ PartBegin
    \/ \E i \in PartIdx : PartStart(i)
    \/ \E i \in PartIdx : PartChunk(i)
    \/ ConcatPart
    \/ ManyFail
    \/ ManyDone
    \/ RequestLoop
    \/ Outcome
    \/ Fetched
    \/ SetCancel

Spec == Init /\ [][Next]_vars

\* The fetch of a source with a staging path.
SpecStaged == InitStaged /\ [][Next]_vars

\* The fetch from a server whose HEAD carries no Last-Modified.
SpecNoLm == InitNoLm /\ [][Next]_vars

\* The fetch by a fetcher with a timeout, under the claim's proviso: the
\* executor polls the fetch future until it is ready and every operation it
\* awaits completes or fails, so a step of the fetch that can be taken is
\* eventually taken.  The owner of the cancel flag is under no obligation.
SpecTimed == InitTimed /\ [][Next]_vars /\ WF_vars(Next /\ cancel' = cancel)

\* ---------------------------------------------------------------- claims
RECURSIVE SumProgress(_)
SumProgress(evs) ==
    IF evs = <<>> THEN 0
    ELSE (IF Head(evs).k = "Progress" THEN Head(evs).n ELSE 0) + SumProgress(Tail(evs))

\* The position of the first event e in the sink, 0 when it was never sent.
Position(e) ==
    IF \E i \in 1..Len(events) : events[i] = e
    THEN CHOOSE i \in 1..Len(events) : events[i] = e /\ \A j \in 1..(i - 1) : events[j] # e
    ELSE 0

Count(k) == Cardinality({i \in 1..Len(events) : events[i].k = k})

\* The events of the latest attempt (Fetched is sent by requests_stream).
AttemptEvents ==
    SelectSeq(SubSeq(events, att.evStart + 1, Len(events)), LAMBDA e : e.k # "Fetched")

RequestReturned == pc \in {"request_end", "outcome", "done"}

\* C1: once an attempt of request has failed with Cancelled, request starts
\* no further attempt, whatever `retries` is.
C1_CancelledIsTerminal ==
    \A i \in 1..Len(req.results) :
        req.results[i].err = "Cancelled" => req.attempts = i

\* C2: when request has returned, with Ok (of the first attempt or of a
\* retry) or with the last error, no sibling <filename>.part<i> exists.
C2_NoPartsAfterRequest ==
    RequestReturned => \A i \in PartIdx : partFiles[i] = None

C4_LengthIsContentLength ==
    (pc = "done" /\ req.result = Ok /\ ~att.notModified) => Len(dest.bytes) = Length

\* C5: in a resumed single-stream fetch (the GET with Range: bytes=r- was
\* answered 206) the first byte get writes lands at position r, and on
\* success the file is its old r bytes followed by the body of the range.
C5_ResumeWritesAtOffset ==
    (att.mode = "single" /\ att.offset # 0 /\ att.getTry = 1 /\ ~att.notModified)
        => /\ (pc = "body" /\ IsSome(sget.firstWrite)) => sget.firstWrite[1] = att.offset
           /\ att.res = Ok
                => dest.bytes = att.destStart.bytes \o Body(att.offset, Length)

\* C6: request runs at least one and at most `retries` attempts, starts no
\* attempt after one that succeeded, and returns the result of the last
\* attempt it made.
C6_AttemptsBounded ==
    /\ req.attempts <= conf.retries
    /\ \A i \in 1..Len(req.results) : req.results[i] = Ok => req.attempts = i
    /\ RequestReturned
         => /\ req.attempts >= 1
            /\ Len(req.results) = req.attempts
            /\ req.result = req.results[req.attempts]

\* C6, the case: two attempts failed with different errors.
C6_Witness ==
    /\ pc = "done"
    /\ req.attempts = 2
    /\ req.result # Ok
    /\ req.results[1] # req.results[2]

\* C7: Fetching is the first event of the source and only the first,
\* Fetched is sent once the fetch is over and nothing is sent after it.
C7_FetchingFirstFetchedLast ==
    /\ \A i \in 1..Len(events) : events[i].k = "Fetching" <=> i = 1
    /\ \A i \in 1..Len(events) : events[i].k = "Fetched" => i = Len(events)
    /\ pc = "done" => Count("Fetching") = 1 /\ Count("Fetched") = 1

\* C7, the case: the fetch failed while a part fetch was in flight
\* (PartFetching(1) was sent, PartFetched(1) never).
C7_Witness ==
    /\ pc = "done"
    /\ req.result # Ok
    /\ Position(Ev("PartFetching", 1)) > 0
    /\ Position(Ev("PartFetched", 1)) = 0

\* C8: at most connections_per_file range GETs are in flight.
C8_InFlightBounded ==
    Cardinality({i \in PartIdx : many.part[i].st = "body"}) <= conf.connections

\* C8, the case: as many range GETs in flight as connections_per_file allows.
C8_Witness ==
    /\ conf.connections = 2
    /\ Cardinality({i \in PartIdx : many.part[i].st = "body"}) = 2

\* C9: an attempt whose HEAD named the length and the mtime the local file
\* has is a cache hit: it sends AlreadyFetched and nothing else, sends no
\* GET, leaves the destination as it was and returns Ok.
C9_CacheHit ==
    (/\ att.probe = "info"
     /\ att.destStart.exists
     /\ Len(att.destStart.bytes) = att.length[1]
     /\ att.destStart.mtime = att.modified)
        => /\ att.mode = "hit"
           /\ att.res = Ok
           /\ AttemptEvents = <<Ev("AlreadyFetched", 0)>>
           /\ att.gets = 0
           /\ dest = att.destStart

\* C9, the case: a fetch that ended as a cache hit.
C9_Witness == pc = "done" /\ att.mode = "hit" /\ req.result = Ok

\* C10: when a fetch has succeeded, the Progress values sent for the source
\* sum to the number of bytes written to the destination during the fetch.
C10_ProgressIsWritten ==
    (pc = "done" /\ req.result = Ok) => SumProgress(events) = written

\* The file the fetch delivers: Source::dest.
Destination == IF conf.staging THEN final ELSE dest

\* C11: when a fetch has succeeded and a Last-Modified was received in its
\* last attempt (by a HEAD, or by a GET that was answered with a body, the
\* range GETs of a multi-part fetch included; no GET was answered 304), the
\* destination's mtime is that Last-Modified.
C11_MtimeIsLastModified ==
    (pc = "done" /\ req.outcome = Ok /\ att.lmSeen /\ ~att.notModified)
        => Destination.mtime = "lm"

\* C12: in the events of the source every Progress comes after a
\* ContentLength; a cold single-stream fetch that succeeded sent Fetching,
\* ContentLength(Length), Progress events that sum to Length, Fetched.
C12_ContentLengthBeforeProgress ==
    /\ \A i \in 1..Len(events) :
          events[i].k = "Progress"
              => \E j \in 1..(i - 1) : events[j].k = "ContentLength"
    /\ (/\ pc = "done" /\ req.attempts = 1 /\ req.result = Ok
        /\ att.probe = "nofile" /\ conf.connections = 0 /\ ~att.notModified)
          => /\ events[2] = Ev("ContentLength", Length)
             /\ SumProgress(events) = Length

\* C13: for a source with a staging path the fetch works on the staging
\* path: Source::dest changes in one step only, the rename of the staging
\* path onto it after request returned Ok, and so is unchanged when request
\* fails; a rename that fails makes the outcome Rename, any other outcome is
\* the result of request; Fetched is sent after the rename.
C13_StagedThenRenamed ==
    [][/\ final' # final
          => /\ pc = "request_end" /\ req.result = Ok
             /\ final' = dest /\ ~dest'.exists
             /\ req'.outcome = Ok
       /\ (req.outcome = Pending /\ req'.outcome # Pending)
          => /\ pc = "request_end"
             /\ req'.outcome = Ok => (req.result = Ok /\ final' = dest)
             /\ req'.outcome # Ok
                   => /\ final' = final /\ dest' = dest
                      /\ req'.outcome = (IF req.result = Ok THEN Err("Rename")
                                         ELSE req.result)
       /\ Count("Fetched")' > 0 => req.outcome # Pending
      ]_vars

\* C13, the case: the fetch replaced the file Source::dest had by the one
\* fetched at the staging path.
C13_Witness ==
    /\ conf.staging /\ pc = "done" /\ req.outcome = Ok
    /\ final.exists /\ final.bytes = Body(0, Length) /\ final.mtime = "lm"
    /\ ~dest.exists

\* The errors of a filesystem operation.
FilesystemErrors ==
    {"FileCreate", "Write", "MetadataRemove", "OpenPart", "Concatenate",
     "FileTime", "Parentless", "Nameless"}

\* C14: an attempt that failed with a filesystem error is the last one:
\* request starts no attempt after it and returns its error.
C14_FilesystemErrorsNotRetried ==
    \A i \in 1..Len(req.results) :
        req.results[i].err \in FilesystemErrors
            => /\ req.attempts = i
               /\ RequestReturned => req.result = req.results[i]

\* An attempt has ended with Cancelled: get saw the cancel flag set.
SeenCancelled ==
    \/ att.res = Err("Cancelled")
    \/ \E i \in 1..Len(req.results) : req.results[i] = Err("Cancelled")

\* C15: once get has seen the cancel flag set, chunks having been read
\* before (the flag is never cleared), the destination keeps the bytes it
\* holds, it is not truncated, extended or deleted, and request returns
\* Cancelled.
C15_CancelKeepsBytes ==
    [][(SeenCancelled /\ Count("Progress") > 0)
          => /\ dest'.exists = dest.exists
             /\ dest'.bytes = dest.bytes
             /\ RequestReturned' => req'.result = Err("Cancelled")
      ]_vars

\* The errors of the network.
TransportErrors == {"Client", "Status", "TimedOut"}

\* C16: when the first attempt failed with a transport error and the second
\* succeeded, the events between Fetching and Fetched are those of the
\* second attempt: none of the failed attempt was delivered.
C16_OnlySecondAttemptEvents ==
    (/\ pc = "done" /\ req.attempts = 2 /\ req.result = Ok
     /\ req.results[1].err \in TransportErrors)
        => /\ SubSeq(events, 2, Len(events) - 1) = AttemptEvents
           /\ \A j \in 2..att.evStart :
                 events[j].k \notin {"ContentLength", "Progress",
                                     "PartFetching", "PartFetched"}

\* The siblings <filename>.part<i> that exist.
ExistingParts == {i \in PartIdx : IsSome(partFiles[i])}

\* C17: when request starts an attempt, the first one or a retry, no
\* sibling <filename>.part<i> exists, and while get_many runs the siblings
\* that exist are among the parts it planned.
C17_NoPartsBeforeAttempt ==
    /\ pc = "attempt" => ExistingParts = {}
    /\ pc = "many" => ExistingParts \subseteq 0..(Len(many.ranges) - 1)

Sent(e) ==
    Cardinality({j \in (att.evStart + 1)..Len(events) : events[j] = e})

\* The position of the latest event e in the sink, 0 when it was never sent.
LastPosition(e) ==
    IF \E j \in 1..Len(events) : events[j] = e
    THEN CHOOSE j \in 1..Len(events) :
            events[j] = e /\ \A k \in (j + 1)..Len(events) : events[k] # e
    ELSE 0

C20_CancelStopsNewParts ==
    [][cancel
          => /\ \A i \in PartIdx :
                  /\ many.part[i].st = "idle" => many'.part[i].st = "idle"
                  /\ many'.part[i].cursor <= many.part[i].cursor
             /\ Count("PartFetching")' = Count("PartFetching")
             /\ sget'.cursor <= sget.cursor
      ]_vars

\* C21: when the GET of a get is answered 304, the file the get was called
\* on (the destination when it exists, or the part file of a part) has
\* after the get the length and the bytes it had before it, no Progress is
\* sent, and the get is a success.
C21_NotModifiedLeavesFile ==
    [][/\ (pc = "get" /\ dest.exists /\ ~att.notModified /\ att'.notModified)
          => /\ dest'.exists = dest.exists
             /\ dest'.bytes = dest.bytes
             /\ events' = events
             /\ att'.res = Ok
       /\ \A i \in PartIdx :
            (/\ many.part[i].st = "begun" /\ many'.part[i].st = "done"
             /\ ~att.notModified /\ att'.notModified)
               => /\ partFiles'[i] = partFiles[i]
                  /\ Count("Progress")' = Count("Progress")
                  /\ many'.part[i].res = Ok
      ]_vars

\* C22: in the single-stream path, after a GET that failed with
\* Status(501) one more GET is sent in the attempt, with no Range header;
\* when the attempt succeeds (that GET was answered with its body) the
\* destination is the body, the whole file; when that GET fails the attempt
\* ends with its error.
C22_NotImplementedFallback ==
    (att.mode = "single" /\ att.getTry = 2)
        => /\ att.range = <<>>
           /\ att.gets = (IF pc = "get" THEN 1 ELSE 2)
           /\ pc \in {"get", "body"} \/ att.res # Pending
           /\ (att.res = Ok /\ ~att.notModified) => dest.bytes = Body(0, Length)

\* An attempt of a fetcher with connections_per_file set whose first range
\* probe was answered 206 with a Content-Range that does not start at the
\* offset asked for, and that went on to the single-stream path.
UnsupportedRange ==
    /\ conf.connections # 0
    /\ att.mode = "single"
    /\ att.probes # <<>>
    /\ att.probes[1].status = 206
    /\ att.probes[1].crange # Some(att.probes[1].resume)

\* C23: supports_range returns true exactly when the answer is 206 and its
\* Content-Range starts at the resume offset; and when a fetcher with
\* connections_per_file set is answered 206 with another Content-Range, the
\* attempt creates no part file, emits no part event, drops the resume
\* offset and fetches the whole file with no Range header into the
\* truncated destination.
C23_RangeSupportIsContentRange ==
    /\ \A k \in 1..Len(att.probes) :
         att.probes[k].result = "true"
            <=> /\ att.probes[k].status = 206
                /\ att.probes[k].crange = Some(att.probes[k].resume)
    /\ UnsupportedRange
         => /\ ExistingParts = {}
            /\ \A k \in 1..Len(AttemptEvents) :
                 AttemptEvents[k].k \notin {"PartFetching", "PartFetched"}
            /\ att.resume = None
            /\ att.range = <<>>
            /\ att.offset = 0
            /\ pc = "body" => ~sget.append /\ sget.cursor = sget.next
            /\ (att.res = Ok /\ ~att.notModified) => dest.bytes = Body(0, Length)

\* C23 happens: a one-byte local file, both probes at offset 1 answered 206
\* with another Content-Range, and the whole file fetched over it.
C23_Witness ==
    /\ UnsupportedRange
    /\ pc = "done"
    /\ Len(att.probes) = 2
    /\ att.probes[2].resume = 1
    /\ att.probes[2].result = "false"
    /\ att.res = Ok
    /\ ~att.notModified
    /\ dest.bytes = Body(0, Length)

\* The attempt found a local file of the length of the HEAD's
\* Content-Length whose mtime is not the HEAD's Last-Modified.
StaleLocal ==
    /\ att.probe = "info"
    /\ conf.headLm
    /\ att.destStart.exists
    /\ Len(att.destStart.bytes) = att.length[1]
    /\ att.destStart.mtime # "lm"

\* C24: a local file of the server's length and another mtime is deleted
\* and fetched again from offset 0: no resume offset, no range probe and no
\* Range header at an offset above 0, the destination opened with truncate
\* and, on success, holding the body; and when the lengths differ the
\* resume offset is the local length and the file is kept.
C24_StaleFileRefetched ==
    /\ StaleLocal
         => /\ pc = "plan" => dest = NoFile
            /\ att.resume = None
            /\ att.offset = 0
            /\ att.range = <<>>
            /\ \A k \in 1..Len(att.probes) : att.probes[k].resume = 0
            /\ pc = "body" => ~sget.append
            /\ (att.res = Ok /\ ~att.notModified) => dest.bytes = Body(0, Length)
    /\ (/\ pc = "plan"
        /\ att.probe = "info"
        /\ conf.headLm
        /\ att.destStart.exists
        /\ Len(att.destStart.bytes) # att.length[1])
         => /\ att.resume = Some(Len(att.destStart.bytes))
            /\ dest = att.destStart

\* C24 happens: a stale local file of the server's length was fetched again.
C24_Witness ==
    /\ StaleLocal
    /\ pc = "done"
    /\ att.mode \in {"single", "multi"}
    /\ att.res = Ok
    /\ ~att.notModified
    /\ dest.bytes = Body(0, Length)
    /\ dest.mtime = "lm"

\* C25: every fetch terminates: request returns and Fetched is sent, for
\* every `retries`, every sequence of failures, timeouts of a send or of a
\* read among them, and whether or not the cancel flag is set on the way.
C25_EveryFetchTerminates ==
    /\ <>RequestReturned
    /\ <>(pc = "done" /\ Count("Fetched") = 1)

\* C25 happens: a fetch that timed out, was retried to the last attempt
\* with the cancel flag set, and ended.
C25_Witness ==
    /\ pc = "done"
    /\ Count("Fetched") = 1
    /\ cancel
    /\ conf.retries = MaxRetries
    /\ req.attempts = conf.retries
    /\ \E i \in 1..Len(req.results) : req.results[i].err = "TimedOut"

====
